---- MODULE Spec2Model ----
(***************************************************************************)
(* The Votaciones ink! contract (src/lib.rs): an owner-gated proposal      *)
(* registry with one vote per account and per proposal.                    *)
(*                                                                         *)
(* The contract's storage is the four fields of struct Votaciones.  The    *)
(* host serialises the calls, so every message is one atomic action.  The  *)
(* events handed to the host are kept in the ordered log `events`; the     *)
(* message that ran last, its caller, its arguments and what it returned   *)
(* are kept in `last_call`.  `created_ok` and `ballots` are history        *)
(* variables: they record which calls succeeded and are read by no         *)
(* message.                                                                *)
(***************************************************************************)
EXTENDS Integers, Sequences, FiniteSets, TLC

\* ------------------------------------------------------------------ bounds

\* The largest value of the contract's u32 fields.  The build has 2^32 - 1;
\* the model keeps the same checked arithmetic at a width narrow enough for
\* runs from new() to reach the largest value.
U32_MAX == 2

\* The longest event log explored: a call that would emit one more event is
\* not explored (calls that fail emit nothing and are always explored).
MaxEvents == 4

\* ------------------------------------------------------------------ inputs

\* AccountId values (the callers the host may attribute a call to).
Accounts == {"alice", "bob", "charlie"}

\* The account that instantiates the contract.  Accounts are opaque and only
\* compared for equality, so which one deploys does not matter.
Deployer == "alice"

\* String values passed as titles.
Titles == {"Titulo", "Tema"}

\* Every u32 value.
U32 == 0..U32_MAX

VARIABLES
    owner,              \* Votaciones.owner : AccountId
    proposals,          \* Votaciones.proposals : Mapping<u32, Proposal>
    has_voted,          \* Votaciones.has_voted : Mapping<(u32, AccountId), bool>
    next_proposal_id,   \* Votaciones.next_proposal_id : u32
    events,             \* the events emitted so far, in order
    last_call,          \* the last message: op, caller, args, ok, err, val
    created_ok,         \* history: number of create_proposal calls that returned Ok
    ballots             \* history: <<proposalid, caller, state>> of every vote that returned Ok

storage == <<owner, proposals, has_voted, next_proposal_id>>
vars == <<owner, proposals, has_voted, next_proposal_id, events, last_call,
          created_ok, ballots>>

\* ------------------------------------------------------------------ types

\* enum Error
Error == {"NotOwner", "ProposalNotFound", "AlreadyVoted", "MaxProposalsReached",
          "Overflow"}

\* Option<T>: None, or Some(v).
None == [some |-> FALSE, v |-> <<>>]
Some(x) == [some |-> TRUE, v |-> <<x>>]
unwrap(o) == o.v[1]
unwrap_or(o, d) == IF o.some THEN o.v[1] ELSE d

\* struct Proposal
Proposal(id, title, votes_for, votes_against) ==
    [id |-> id, title |-> title, votes_for |-> votes_for,
     votes_against |-> votes_against]

\* Variant: the event carries a fixed title instead of the call's.
ProposalCreated_untitled(id, title) ==
    [event |-> "ProposalCreated", id |-> id, title |-> "Titulo"]

\* Variant: the event carries the counter after the increment.
ProposalCreated_next_id(id, title) ==
    [event |-> "ProposalCreated", id |-> id + 1, title |-> title]

\* struct ProposalCreated
ProposalCreated(id, title) ==
    [event |-> "ProposalCreated", id |-> id, title |-> title]

\* Variant: the event names the owner as the voter.
VoteCast_by_owner(proposalid, voter, state) ==
    [event |-> "VoteCast", proposalid |-> proposalid, voter |-> owner,
     state |-> state]

\* struct VoteCast
VoteCast(proposalid, voter, state) ==
    [event |-> "VoteCast", proposalid |-> proposalid, voter |-> voter,
     state |-> state]

\* ------------------------------------------------------------------ helpers

\* Variant: u32::wrapping_add, the sum modulo 2^width (what an unchecked +
\* does in a release build).
wrapping_add(a, b) == Some((a + b) % (U32_MAX + 1))

\* u32::checked_add: None when the sum does not fit the width.
checked_add(a, b) == IF a + b > U32_MAX THEN None ELSE Some(a + b)

\* Mapping::default(): no key is stored.
Mapping_default == <<>>

\* Mapping::get: Some(value) for a stored key, None otherwise.
Mapping_get(m, k) == IF k \in DOMAIN m THEN Some(m[k]) ELSE None

\* Mapping::insert: stores or overwrites the value under k.
Mapping_insert(m, k, x) == [j \in (DOMAIN m) \cup {k} |-> IF j = k THEN x ELSE m[j]]

\* What a message returns, as kept in last_call, with the storage fields the
\* call wrote, in the order it wrote them.
Ok(op, caller, args, val, writes) ==
    [op |-> op, caller |-> caller, args |-> args, ok |-> TRUE, err |-> "",
     val |-> val, writes |-> writes]
Err(op, caller, args, e) ==
    [op |-> op, caller |-> caller, args |-> args, ok |-> FALSE, err |-> e,
     val |-> <<>>, writes |-> <<>>]

\* ------------------------------------------------------------------ messages

\* Votaciones::new, called by Deployer.
Init ==
    /\ owner = Deployer
    /\ proposals = Mapping_default
    /\ has_voted = Mapping_default
    /\ next_proposal_id = 0
    /\ events = <<>>
    /\ last_call = Ok("new", owner, <<>>, <<>>, <<>>)
    /\ created_ok = 0
    /\ ballots = {}

\* Variant: no gate.
not_owner_never(caller) == FALSE

\* create_proposal's gate: caller != self.owner.
not_owner(caller) == caller # owner

\* Variant: returns the counter after the increment.
create_proposal_returns_next(caller, title) ==
    LET args == <<title>> IN
    IF not_owner(caller)
    THEN /\ last_call' = Err("create_proposal", caller, args, "NotOwner")
         /\ UNCHANGED <<storage, events, created_ok, ballots>>
    ELSE
    LET id == next_proposal_id
        next == checked_add(next_proposal_id, 1)
    IN
    IF ~next.some
    THEN /\ last_call' = Err("create_proposal", caller, args, "MaxProposalsReached")
         /\ UNCHANGED <<storage, events, created_ok, ballots>>
    ELSE
    LET proposal == Proposal(id, title, 0, 0) IN
    /\ Len(events) < MaxEvents
    /\ next_proposal_id' = unwrap(next)
    /\ proposals' = Mapping_insert(proposals, id, proposal)
    /\ events' = Append(events, ProposalCreated(id, title))
    /\ last_call' = Ok("create_proposal", caller, args, <<unwrap(next)>>,
                       <<"next_proposal_id", "proposals">>)
    /\ created_ok' = created_ok + 1
    /\ UNCHANGED <<owner, has_voted, ballots>>

\* Variant: stores the proposal under the counter after the increment.
create_proposal_insert_next(caller, title) ==
    LET args == <<title>> IN
    IF not_owner(caller)
    THEN /\ last_call' = Err("create_proposal", caller, args, "NotOwner")
         /\ UNCHANGED <<storage, events, created_ok, ballots>>
    ELSE
    LET id == next_proposal_id
        next == checked_add(next_proposal_id, 1)
    IN
    IF ~next.some
    THEN /\ last_call' = Err("create_proposal", caller, args, "MaxProposalsReached")
         /\ UNCHANGED <<storage, events, created_ok, ballots>>
    ELSE
    LET proposal == Proposal(id, title, 0, 0) IN
    /\ Len(events) < MaxEvents
    /\ next_proposal_id' = unwrap(next)
    /\ proposals' = Mapping_insert(proposals, unwrap(next), proposal)
    /\ events' = Append(events, ProposalCreated(id, title))
    /\ last_call' = Ok("create_proposal", caller, args, <<id>>,
                       <<"next_proposal_id", "proposals">>)
    /\ created_ok' = created_ok + 1
    /\ UNCHANGED <<owner, has_voted, ballots>>

\* Votaciones::create_proposal(title), called by `caller`.
create_proposal(caller, title) ==
    LET args == <<title>> IN
    IF not_owner(caller)
    THEN /\ last_call' = Err("create_proposal", caller, args, "NotOwner")
         /\ UNCHANGED <<storage, events, created_ok, ballots>>
    ELSE
    LET id == next_proposal_id
        next == checked_add(next_proposal_id, 1)
    IN
    IF ~next.some
    THEN /\ last_call' = Err("create_proposal", caller, args, "MaxProposalsReached")
         /\ UNCHANGED <<storage, events, created_ok, ballots>>
    ELSE
    LET proposal == Proposal(id, title, 0, 0) IN
    /\ Len(events) < MaxEvents
    /\ next_proposal_id' = unwrap(next)
    /\ proposals' = Mapping_insert(proposals, id, proposal)
    /\ events' = Append(events, ProposalCreated(id, title))
    /\ last_call' = Ok("create_proposal", caller, args, <<id>>,
                       <<"next_proposal_id", "proposals">>)
    /\ created_ok' = created_ok + 1
    /\ UNCHANGED <<owner, has_voted, ballots>>

\* Variant: the check is missing.
already_voted_never(key) == FALSE

\* Variant: the owner is treated as having voted on every proposal.
already_voted_or_owner(key) ==
    key[2] = owner \/ unwrap_or(Mapping_get(has_voted, key), FALSE)

\* vote's second check: self.has_voted.get(key).unwrap_or(false).
already_voted(key) == unwrap_or(Mapping_get(has_voted, key), FALSE)

\* Variant: the branches of the tally are swapped.
count_vote_swapped(proposal, state) ==
    LET sum == IF state THEN checked_add(proposal.votes_against, 1)
                        ELSE checked_add(proposal.votes_for, 1)
    IN  IF ~sum.some THEN None
        ELSE IF state THEN Some([proposal EXCEPT !.votes_against = unwrap(sum)])
                      ELSE Some([proposal EXCEPT !.votes_for = unwrap(sum)])

\* Variant: the tally adds without the overflow check.
count_vote_wrapping(proposal, state) ==
    LET sum == IF state THEN wrapping_add(proposal.votes_for, 1)
                        ELSE wrapping_add(proposal.votes_against, 1)
    IN  IF state THEN Some([proposal EXCEPT !.votes_for = unwrap(sum)])
                 ELSE Some([proposal EXCEPT !.votes_against = unwrap(sum)])

\* Variant: a vote in favour also raises votes_against.
count_vote_both(proposal, state) ==
    LET sum == IF state THEN checked_add(proposal.votes_for, 1)
                        ELSE checked_add(proposal.votes_against, 1)
    IN  IF ~sum.some THEN None
        ELSE IF state THEN Some([proposal EXCEPT !.votes_for = unwrap(sum),
                                                 !.votes_against = unwrap(sum)])
                      ELSE Some([proposal EXCEPT !.votes_against = unwrap(sum)])

\* vote's tally ("contar voto"): the proposal with the counter chosen by
\* `state` one higher, or None when that counter does not fit.
count_vote(proposal, state) ==
    LET sum == IF state THEN checked_add(proposal.votes_for, 1)
                        ELSE checked_add(proposal.votes_against, 1)
    IN  IF ~sum.some THEN None
        ELSE IF state THEN Some([proposal EXCEPT !.votes_for = unwrap(sum)])
                      ELSE Some([proposal EXCEPT !.votes_against = unwrap(sum)])

\* Variant: has_voted is written before the tally is checked.
vote_marks_before_count(caller, proposalid, state) ==
    LET args == <<proposalid, state>>
        found == Mapping_get(proposals, proposalid)
    IN
    IF ~found.some
    THEN /\ last_call' = Err("vote", caller, args, "ProposalNotFound")
         /\ UNCHANGED <<storage, events, created_ok, ballots>>
    ELSE
    LET key == <<proposalid, caller>> IN
    IF already_voted(key)
    THEN /\ last_call' = Err("vote", caller, args, "AlreadyVoted")
         /\ UNCHANGED <<storage, events, created_ok, ballots>>
    ELSE
    LET counted == count_vote(unwrap(found), state) IN
    IF ~counted.some
    THEN /\ has_voted' = Mapping_insert(has_voted, key, TRUE)
         /\ last_call' = [Err("vote", caller, args, "Overflow")
                             EXCEPT !.writes = <<"has_voted">>]
         /\ UNCHANGED <<owner, proposals, next_proposal_id, events, created_ok,
                        ballots>>
    ELSE
    /\ Len(events) < MaxEvents
    /\ proposals' = Mapping_insert(proposals, proposalid, unwrap(counted))
    /\ has_voted' = Mapping_insert(has_voted, key, TRUE)
    /\ events' = Append(events, VoteCast(proposalid, caller, state))
    /\ last_call' = Ok("vote", caller, args, <<>>, <<"has_voted", "proposals">>)
    /\ ballots' = ballots \cup {<<proposalid, caller, state>>}
    /\ UNCHANGED <<owner, next_proposal_id, created_ok>>

\* Variant: the tally is computed, and its overflow reported, before the
\* already-voted check.
vote_counts_before_check(caller, proposalid, state) ==
    LET args == <<proposalid, state>>
        found == Mapping_get(proposals, proposalid)
    IN
    IF ~found.some
    THEN /\ last_call' = Err("vote", caller, args, "ProposalNotFound")
         /\ UNCHANGED <<storage, events, created_ok, ballots>>
    ELSE
    LET key == <<proposalid, caller>>
        counted == count_vote(unwrap(found), state)
    IN
    IF ~counted.some
    THEN /\ last_call' = Err("vote", caller, args, "Overflow")
         /\ UNCHANGED <<storage, events, created_ok, ballots>>
    ELSE
    IF already_voted(key)
    THEN /\ last_call' = Err("vote", caller, args, "AlreadyVoted")
         /\ UNCHANGED <<storage, events, created_ok, ballots>>
    ELSE
    /\ Len(events) < MaxEvents
    /\ proposals' = Mapping_insert(proposals, proposalid, unwrap(counted))
    /\ has_voted' = Mapping_insert(has_voted, key, TRUE)
    /\ events' = Append(events, VoteCast(proposalid, caller, state))
    /\ last_call' = Ok("vote", caller, args, <<>>, <<"proposals", "has_voted">>)
    /\ ballots' = ballots \cup {<<proposalid, caller, state>>}
    /\ UNCHANGED <<owner, next_proposal_id, created_ok>>

\* Votaciones::vote(proposalid, state), called by `caller`.
vote(caller, proposalid, state) ==
    LET args == <<proposalid, state>>
        found == Mapping_get(proposals, proposalid)
    IN
    IF ~found.some
    THEN /\ last_call' = Err("vote", caller, args, "ProposalNotFound")
         /\ UNCHANGED <<storage, events, created_ok, ballots>>
    ELSE
    LET key == <<proposalid, caller>> IN
    IF already_voted(key)
    THEN /\ last_call' = Err("vote", caller, args, "AlreadyVoted")
         /\ UNCHANGED <<storage, events, created_ok, ballots>>
    ELSE
    LET counted == count_vote(unwrap(found), state) IN
    IF ~counted.some
    THEN /\ last_call' = Err("vote", caller, args, "Overflow")
         /\ UNCHANGED <<storage, events, created_ok, ballots>>
    ELSE
    /\ Len(events) < MaxEvents
    /\ proposals' = Mapping_insert(proposals, proposalid, unwrap(counted))
    /\ has_voted' = Mapping_insert(has_voted, key, TRUE)
    /\ events' = Append(events, VoteCast(proposalid, caller, state))
    /\ last_call' = Ok("vote", caller, args, <<>>, <<"proposals", "has_voted">>)
    /\ ballots' = ballots \cup {<<proposalid, caller, state>>}
    /\ UNCHANGED <<owner, next_proposal_id, created_ok>>

\* A message that does not read the caller is recorded with this one.
NoCaller == "-"

\* Variant: the two counters are returned in the other order.
get_proposal_swapped(proposal_id) ==
    LET args == <<proposal_id>>
        found == Mapping_get(proposals, proposal_id)
    IN
    /\ last_call' =
          IF ~found.some
          THEN Err("get_proposal", NoCaller, args, "ProposalNotFound")
          ELSE LET proposal == unwrap(found) IN
               Ok("get_proposal", NoCaller, args,
                  <<proposal.title, proposal.votes_against, proposal.votes_for>>,
                  <<>>)
    /\ UNCHANGED <<storage, events, created_ok, ballots>>

\* Votaciones::get_proposal(proposal_id).
get_proposal(proposal_id) ==
    LET args == <<proposal_id>>
        found == Mapping_get(proposals, proposal_id)
    IN
    /\ last_call' =
          IF ~found.some
          THEN Err("get_proposal", NoCaller, args, "ProposalNotFound")
          ELSE LET proposal == unwrap(found) IN
               Ok("get_proposal", NoCaller, args,
                  <<proposal.title, proposal.votes_for, proposal.votes_against>>,
                  <<>>)
    /\ UNCHANGED <<storage, events, created_ok, ballots>>

\* Votaciones::total_proposals().
total_proposals ==
    /\ last_call' = Ok("total_proposals", NoCaller, <<>>, <<next_proposal_id>>, <<>>)
    /\ UNCHANGED <<storage, events, created_ok, ballots>>

\* The host dispatches one message at a time, from any caller, with any arguments.
Next ==
    \/ \E caller \in Accounts, title \in Titles : create_proposal(caller, title)
    \/ \E caller \in Accounts, proposalid \in U32, state \in BOOLEAN :
          vote(caller, proposalid, state)
    \/ \E proposal_id \in U32 : get_proposal(proposal_id)
    \/ total_proposals

Spec == Init /\ [][Next]_vars

\* ------------------------------------------------------------------ properties

\* What last_call says of the call a step made (read in the state after it).
IsCreate(c) == c.op = "create_proposal"
IsVote(c) == c.op = "vote"
Failed(c, e) == ~c.ok /\ c.err = e

\* C1: in every reachable state, the counter at its largest value included, a
\* create_proposal call by a caller other than the owner returns NotOwner,
\* stores no proposal and leaves total_proposals() (next_proposal_id) as it was.
C1_NonOwnerCreateRejected ==
    [][(IsCreate(last_call') /\ last_call'.caller # owner)
         => /\ Failed(last_call', "NotOwner")
            /\ proposals' = proposals
            /\ next_proposal_id' = next_proposal_id]_vars

\* A non-owner's create_proposal was rejected with the counter at its largest value.
C1_Witness ==
    /\ IsCreate(last_call)
    /\ last_call.caller # owner
    /\ Failed(last_call, "NotOwner")
    /\ next_proposal_id = U32_MAX

\* C2: over any sequence of calls, the n-th create_proposal that succeeds
\* returns n - 1, and total_proposals() is the number of create_proposal calls
\* that have succeeded so far.
C2_IdsCountSuccessfulCreations ==
    /\ next_proposal_id = created_ok
    /\ (IsCreate(last_call) /\ last_call.ok) => last_call.val = <<created_ok - 1>>
    /\ last_call.op = "total_proposals" => last_call.val = <<created_ok>>

\* The second successful creation returned 1, after a vote in between.
C2_Witness ==
    /\ IsCreate(last_call)
    /\ last_call.ok
    /\ last_call.val = <<1>>
    /\ created_ok = 2
    /\ ballots # {}

\* C3: once an identity has voted on a proposal, every later vote call of that
\* identity on that proposal, with either support value, returns AlreadyVoted
\* and leaves the proposal's votes_for and votes_against as they were.
C3_SecondVoteRejected ==
    [][(/\ IsVote(last_call')
        /\ \E s \in BOOLEAN :
              <<last_call'.args[1], last_call'.caller, s>> \in ballots)
         => /\ Failed(last_call', "AlreadyVoted")
            /\ proposals'[last_call'.args[1]].votes_for
                  = proposals[last_call'.args[1]].votes_for
            /\ proposals'[last_call'.args[1]].votes_against
                  = proposals[last_call'.args[1]].votes_against]_vars

\* A voter was rejected when voting again with the other support value, after
\* another successful call came in between.
C3_Witness ==
    /\ IsVote(last_call)
    /\ Failed(last_call, "AlreadyVoted")
    /\ <<last_call.args[1], last_call.caller, ~last_call.args[2]>> \in ballots
    /\ events[Len(events)] #
          [event |-> "VoteCast", proposalid |-> last_call.args[1],
           voter |-> last_call.caller, state |-> ~last_call.args[2]]

\* C4: in every reachable state and for every stored proposal, votes_for is the
\* number of distinct identities whose successful vote on it had support true,
\* and votes_against the number of those whose successful vote had support false.
C4_TallyCountsVoters ==
    \A p \in DOMAIN proposals :
        /\ proposals[p].votes_for
              = Cardinality({a \in Accounts : <<p, a, TRUE>> \in ballots})
        /\ proposals[p].votes_against
              = Cardinality({a \in Accounts : <<p, a, FALSE>> \in ballots})

\* A proposal has votes of both kinds, from different voters.
C4_Witness ==
    \E p \in DOMAIN proposals :
        /\ proposals[p].votes_for >= 1
        /\ proposals[p].votes_against >= 1

\* C5: in every reachable state, vote (any caller, any support) and
\* get_proposal on an id that no successful create_proposal has returned (an id
\* >= next_proposal_id) return ProposalNotFound.
C5_UnassignedIdNotFound ==
    [][(/\ last_call'.op \in {"vote", "get_proposal"}
        /\ last_call'.args[1] >= next_proposal_id)
         => Failed(last_call', "ProposalNotFound")]_vars

\* vote on the first unassigned id was answered ProposalNotFound while other
\* proposals exist.
C5_Witness ==
    /\ IsVote(last_call)
    /\ Failed(last_call, "ProposalNotFound")
    /\ last_call.args[1] = next_proposal_id
    /\ next_proposal_id >= 1

\* C6: a create_proposal or vote call that returns an error leaves proposals,
\* has_voted and next_proposal_id as they were, and has written nothing to
\* storage before the check that failed.
C6_FailedCallWritesNothing ==
    [][((IsCreate(last_call') \/ IsVote(last_call')) /\ ~last_call'.ok)
         => /\ last_call'.err \in Error
            /\ last_call'.writes = <<>>
            /\ proposals' = proposals
            /\ has_voted' = has_voted
            /\ next_proposal_id' = next_proposal_id]_vars

\* A vote failed with Overflow, the last of vote's checks, on a contract that
\* holds votes.
C6_Witness ==
    /\ IsVote(last_call)
    /\ Failed(last_call, "Overflow")
    /\ DOMAIN has_voted # {}

\* C7: when next_proposal_id + 1 does not fit the counter's width,
\* create_proposal called by the owner fails with MaxProposalsReached, inserts
\* no proposal and does not advance the counter; next_proposal_id never wraps
\* around to a smaller value.
C7_CounterOverflowRejected ==
    [][/\ (/\ IsCreate(last_call')
           /\ last_call'.caller = owner
           /\ next_proposal_id + 1 > U32_MAX)
          => /\ Failed(last_call', "MaxProposalsReached")
             /\ proposals' = proposals
             /\ next_proposal_id' = next_proposal_id
       /\ next_proposal_id' >= next_proposal_id]_vars

\* The owner's create_proposal was rejected with MaxProposalsReached.
C7_Witness ==
    /\ IsCreate(last_call)
    /\ last_call.caller = owner
    /\ Failed(last_call, "MaxProposalsReached")
    /\ next_proposal_id = U32_MAX

\* The counter of proposal p that a vote with support `state` increments.
Selected(p, state) == IF state THEN p.votes_for ELSE p.votes_against

\* C8: when the counter selected by support of a stored proposal is at its
\* largest value and the caller has not voted on that proposal, vote fails
\* with Overflow and changes neither counter of the proposal nor has_voted; no
\* vote counter ever wraps around.
C8_VoteOverflowRejected ==
    [][/\ (/\ IsVote(last_call')
           /\ last_call'.args[1] \in DOMAIN proposals
           /\ \A s \in BOOLEAN :
                 <<last_call'.args[1], last_call'.caller, s>> \notin ballots
           /\ Selected(proposals[last_call'.args[1]], last_call'.args[2]) = U32_MAX)
          => /\ Failed(last_call', "Overflow")
             /\ proposals'[last_call'.args[1]] = proposals[last_call'.args[1]]
             /\ has_voted' = has_voted
       /\ \A p \in DOMAIN proposals :
             /\ p \in DOMAIN proposals'
             /\ proposals'[p].votes_for >= proposals[p].votes_for
             /\ proposals'[p].votes_against >= proposals[p].votes_against]_vars

\* A vote against was rejected with Overflow: votes_against is at its largest
\* value and the caller has not voted on the proposal.
C8_Witness ==
    /\ IsVote(last_call)
    /\ Failed(last_call, "Overflow")
    /\ last_call.args[2] = FALSE
    /\ proposals[last_call.args[1]].votes_against = U32_MAX
    /\ <<last_call.args[1], last_call.caller>> \notin DOMAIN has_voted

\* C9: a create_proposal(title) that succeeds appends exactly one
\* ProposalCreated event with the returned id and the given title and stores
\* the proposal {id, title, votes_for: 0, votes_against: 0} under that id; one
\* that fails appends no event.
C9_CreateEmitsOneEvent ==
    [][IsCreate(last_call')
         => IF last_call'.ok
            THEN /\ events' = events \o
                       << [event |-> "ProposalCreated", id |-> last_call'.val[1],
                           title |-> last_call'.args[1]] >>
                 /\ last_call'.val[1] \in DOMAIN proposals'
                 /\ proposals'[last_call'.val[1]] =
                       [id |-> last_call'.val[1], title |-> last_call'.args[1],
                        votes_for |-> 0, votes_against |-> 0]
            ELSE events' = events]_vars

\* The second creation succeeded and its event follows an earlier one.
C9_Witness ==
    /\ IsCreate(last_call)
    /\ last_call.ok
    /\ Len(events) >= 2
    /\ events[Len(events)] =
          [event |-> "ProposalCreated", id |-> 1, title |-> last_call.args[1]]

\* C10: a vote(proposal_id, support) that succeeds sets
\* has_voted[(proposal_id, caller)] to true and appends exactly one VoteCast
\* event whose proposal id, voter and support are the call's proposal_id, the
\* caller and support; one that fails appends no event.
C10_VoteEmitsOneEvent ==
    [][IsVote(last_call')
         => IF last_call'.ok
            THEN /\ <<last_call'.args[1], last_call'.caller>> \in DOMAIN has_voted'
                 /\ has_voted'[<<last_call'.args[1], last_call'.caller>>] = TRUE
                 /\ events' = events \o
                       << [event |-> "VoteCast", proposalid |-> last_call'.args[1],
                           voter |-> last_call'.caller,
                           state |-> last_call'.args[2]] >>
            ELSE events' = events]_vars

\* A vote against proposal 1 by an account other than the owner succeeded.
C10_Witness ==
    /\ IsVote(last_call)
    /\ last_call.ok
    /\ last_call.args = <<1, FALSE>>
    /\ last_call.caller # owner
    /\ has_voted[<<1, last_call.caller>>]

\* C11: get_proposal and total_proposals change no state and emit no event;
\* for a stored id get_proposal returns exactly the stored (title, votes_for,
\* votes_against), and the only error it returns is ProposalNotFound.
C11_ReadsAreReadOnly ==
    [][last_call'.op \in {"get_proposal", "total_proposals"}
         => /\ UNCHANGED <<owner, proposals, has_voted, next_proposal_id, events>>
            /\ last_call'.writes = <<>>
            /\ last_call'.op = "get_proposal"
                  => IF last_call'.args[1] \in DOMAIN proposals
                     THEN /\ last_call'.ok
                          /\ last_call'.val =
                                <<proposals[last_call'.args[1]].title,
                                  proposals[last_call'.args[1]].votes_for,
                                  proposals[last_call'.args[1]].votes_against>>
                     ELSE Failed(last_call', "ProposalNotFound")]_vars

\* get_proposal returned a proposal whose two counters differ.
C11_Witness ==
    /\ last_call.op = "get_proposal"
    /\ last_call.ok
    /\ last_call.val[2] # last_call.val[3]
    /\ last_call.val[3] >= 1

\* C12: once a proposal is stored, its id and title are the same in every
\* later state, whatever create_proposal and vote calls follow.
C12_IdAndTitleImmutable ==
    [][\A p \in DOMAIN proposals :
          /\ p \in DOMAIN proposals'
          /\ proposals'[p].id = proposals[p].id
          /\ proposals'[p].title = proposals[p].title]_vars

\* Proposal 0 has been voted on and a later create_proposal succeeded.
C12_Witness ==
    /\ IsCreate(last_call)
    /\ last_call.ok
    /\ last_call.val = <<1>>
    /\ 0 \in DOMAIN proposals
    /\ proposals[0].votes_for + proposals[0].votes_against >= 2

\* C13: in every reachable state, vote(p, support) succeeds for every stored
\* proposal p and every caller, the owner included, that has not voted on p,
\* provided the selected counter is below its largest value.
C13_VoteAlwaysOpen ==
    [][(/\ IsVote(last_call')
        /\ last_call'.args[1] \in DOMAIN proposals
        /\ \A s \in BOOLEAN :
              <<last_call'.args[1], last_call'.caller, s>> \notin ballots
        /\ Selected(proposals[last_call'.args[1]], last_call'.args[2]) < U32_MAX)
         => last_call'.ok]_vars

\* The owner's vote succeeded on a proposal that two other accounts had voted on.
C13_Witness ==
    /\ IsVote(last_call)
    /\ last_call.ok
    /\ last_call.caller = owner
    /\ Cardinality({a \in Accounts : <<last_call.args[1], a>> \in DOMAIN has_voted}) = 3

\* C14: vote checks its failure conditions in a fixed order and reports the
\* first that applies: ProposalNotFound, then AlreadyVoted, then Overflow.  A
\* caller that has voted on a proposal whose selected counter is at its
\* largest value gets AlreadyVoted, not Overflow.
C14_VoteErrorOrder ==
    [][IsVote(last_call')
         => last_call'.err =
               IF last_call'.args[1] \notin DOMAIN proposals
               THEN "ProposalNotFound"
               ELSE IF \E s \in BOOLEAN :
                          <<last_call'.args[1], last_call'.caller, s>> \in ballots
               THEN "AlreadyVoted"
               ELSE IF Selected(proposals[last_call'.args[1]], last_call'.args[2])
                          = U32_MAX
               THEN "Overflow"
               ELSE ""]_vars

\* A caller that had voted was answered AlreadyVoted while the counter its
\* vote selects is at its largest value.
C14_Witness ==
    /\ IsVote(last_call)
    /\ Failed(last_call, "AlreadyVoted")
    /\ Selected(proposals[last_call.args[1]], last_call.args[2]) = U32_MAX

\* C15: state only grows: on every step next_proposal_id does not decrease, no
\* stored proposal's votes_for or votes_against decreases, a has_voted flag that
\* is true stays true, and a stored proposal stays stored.
C15_StateOnlyGrows ==
    [][/\ next_proposal_id' >= next_proposal_id
       /\ \A p \in DOMAIN proposals :
             /\ p \in DOMAIN proposals'
             /\ proposals'[p].votes_for >= proposals[p].votes_for
             /\ proposals'[p].votes_against >= proposals[p].votes_against
       /\ \A k \in DOMAIN has_voted :
             has_voted[k] => (k \in DOMAIN has_voted' /\ has_voted'[k])]_vars

\* Every part of the state has grown: two proposals, flags set, both counters
\* of a proposal above zero.
C15_Witness ==
    /\ next_proposal_id = 2
    /\ Cardinality(DOMAIN has_voted) = 2
    /\ \E p \in DOMAIN proposals :
          proposals[p].votes_for = 1 /\ proposals[p].votes_against = 1

\* C16: in every reachable state the ids stored in proposals are exactly
\* 0 .. next_proposal_id - 1, and the proposal stored under key k has id k.
C16_IdsAreDense ==
    /\ DOMAIN proposals = 0..(next_proposal_id - 1)
    /\ \A k \in DOMAIN proposals : proposals[k].id = k

\* Two proposals are stored and the counter is at its largest value.
C16_Witness ==
    /\ next_proposal_id = U32_MAX
    /\ Cardinality(DOMAIN proposals) >= 2

\* C17: in every reachable state a true has_voted[(p, v)] implies that
\* proposal p is stored, and for every stored proposal p the sum votes_for +
\* votes_against is the number of identities v with has_voted[(p, v)] true.
C17_FlagsMatchTally ==
    /\ \A k \in DOMAIN has_voted : has_voted[k] => k[1] \in DOMAIN proposals
    /\ \A p \in DOMAIN proposals :
          proposals[p].votes_for + proposals[p].votes_against
             = Cardinality({a \in Accounts :
                              /\ <<p, a>> \in DOMAIN has_voted
                              /\ has_voted[<<p, a>>]})

\* A proposal holds three votes, not all of one kind, and another holds none.
C17_Witness ==
    /\ \E p \in DOMAIN proposals :
          /\ proposals[p].votes_for + proposals[p].votes_against = 3
          /\ proposals[p].votes_for >= 1
          /\ proposals[p].votes_against >= 1
    /\ Cardinality(DOMAIN has_voted) = 3

\* C18: the largest representable id is never assigned: once next_proposal_id
\* is at its largest value every create_proposal fails and the counter stays
\* there, no proposal with that id is ever stored, and the number of successful
\* creations is at most the largest value (one less than the number of ids).
C18_LargestIdNeverAssigned ==
    [][/\ next_proposal_id = U32_MAX
          => /\ next_proposal_id' = U32_MAX
             /\ IsCreate(last_call') => ~last_call'.ok
       /\ U32_MAX \notin DOMAIN proposals'
       /\ \A p \in DOMAIN proposals' : proposals'[p].id # U32_MAX
       /\ created_ok' <= U32_MAX]_vars

\* With the counter at its largest value after that many successful
\* creations and a vote, the owner's create_proposal failed.
C18_Witness ==
    /\ next_proposal_id = U32_MAX
    /\ created_ok = U32_MAX
    /\ IsCreate(last_call)
    /\ last_call.caller = owner
    /\ ~last_call.ok
    /\ last_call.args = <<"Tema">>
    /\ Len(events) = U32_MAX + 1

\* C19: a successful vote(p, support) by caller c changes only the selected
\* counter of proposal p, by exactly one, and the flag has_voted[(p, c)]; the
\* other counter of p, every other proposal, every other has_voted entry,
\* next_proposal_id and owner stay as they were.  A successful create_proposal
\* changes only next_proposal_id and the new proposal's entry.  No operation
\* changes owner.
C19_SuccessFrame ==
    [][/\ owner' = owner
       /\ (IsVote(last_call') /\ last_call'.ok)
          => LET p == last_call'.args[1]
                 st == last_call'.args[2]
                 key == <<last_call'.args[1], last_call'.caller>>
             IN  /\ DOMAIN proposals' = DOMAIN proposals
                 /\ Selected(proposals'[p], st) = Selected(proposals[p], st) + 1
                 /\ Selected(proposals'[p], ~st) = Selected(proposals[p], ~st)
                 /\ proposals'[p].id = proposals[p].id
                 /\ proposals'[p].title = proposals[p].title
                 /\ \A q \in DOMAIN proposals \ {p} : proposals'[q] = proposals[q]
                 /\ DOMAIN has_voted' = DOMAIN has_voted \cup {key}
                 /\ has_voted'[key] = TRUE
                 /\ \A k \in DOMAIN has_voted \ {key} : has_voted'[k] = has_voted[k]
                 /\ next_proposal_id' = next_proposal_id
       /\ (IsCreate(last_call') /\ last_call'.ok)
          => LET id == last_call'.val[1]
             IN  /\ id \notin DOMAIN proposals
                 /\ DOMAIN proposals' = DOMAIN proposals \cup {id}
                 /\ \A q \in DOMAIN proposals : proposals'[q] = proposals[q]
                 /\ has_voted' = has_voted]_vars

\* A vote in favour of proposal 1 succeeded while proposal 0 holds a vote of
\* the same caller.
C19_Witness ==
    /\ IsVote(last_call)
    /\ last_call.ok
    /\ last_call.args = <<1, TRUE>>
    /\ <<0, last_call.caller>> \in DOMAIN has_voted
    /\ proposals[0].votes_against = 1

\* C20: in the event log of any execution the ProposalCreated events carry the
\* ids 0, 1, 2, ... in the order emitted, every VoteCast event for proposal p
\* comes after the ProposalCreated event with id p, and no two VoteCast events
\* have the same (proposal id, voter) pair.
C20_EventLogOrdered ==
    LET created == SelectSeq(events, LAMBDA e : e.event = "ProposalCreated") IN
    /\ \A i \in 1..Len(created) : created[i].id = i - 1
    /\ \A j \in 1..Len(events) :
          events[j].event = "VoteCast"
             => \E i \in 1..(j - 1) :
                   /\ events[i].event = "ProposalCreated"
                   /\ events[i].id = events[j].proposalid
    /\ \A i, j \in 1..Len(events) :
          (/\ i < j
           /\ events[i].event = "VoteCast"
           /\ events[j].event = "VoteCast")
             => ~(/\ events[i].proposalid = events[j].proposalid
                  /\ events[i].voter = events[j].voter)

\* The log holds two creations and two votes, the last a vote on proposal 1
\* by an account that also voted on proposal 0.
C20_Witness ==
    /\ Len(events) = 4
    /\ events[2].event = "VoteCast"
    /\ events[3].event = "ProposalCreated"
    /\ events[4].event = "VoteCast"
    /\ events[4].proposalid = 1
    /\ events[4].voter = events[2].voter

====
